---- MODULE Spec2Model ----
(***************************************************************************)
(* Model of nnunet_pieces: the deep-supervision loss (src/loss.py) and the *)
(* torchio augmentation transforms (src/augmentation.py).                  *)
(*                                                                         *)
(* Every transform class is modelled from its own body, as one call on a   *)
(* subject.  src/augmentation.py as a file does not compile: the list      *)
(* display in ComposednnUNetTransforms.apply_transform lacks a comma (see  *)
(* T_list below).                                                          *)
(*                                                                         *)
(* Numbers.  Weights and losses are exact rationals <<num, den>> (den > 0, *)
(* lowest terms); floating-point rounding is not modelled.  A voxel        *)
(* intensity is an integer count of twentieths, so that the factors the    *)
(* transforms draw (0.65, 0.7, 1.3, 1.5, ...) act exactly on whole-number  *)
(* inputs; a voxel that holds NaN is recorded in the image's nan set.      *)
(***************************************************************************)
EXTENDS Integers, Sequences, FiniteSets, TLC

VARIABLES
    \* ---- src/loss.py : DeepSuprDiceCELoss.__call__ ----
    lpc,                \* position in __call__: "start", "loop", "done"
    input,              \* the L per-level predictions (torch.unbind(input, dim=1))
    target,             \* the target tensor
    target0,            \* history: the target as passed by the caller
    deep_supr_weights,  \* get_weights(deep_supr_num)
    idx,                \* number of completed iterations of the zip loop
    loss,               \* the accumulator
    calls               \* history: arguments of every LossFunction call, in order

VARIABLES
    \* ---- src/augmentation.py : one call of one transform on a subject ----
    apc,                \* "ready" (no call made), "done" (returned), "raised"
    subject,            \* the subject: the sequence of its entries, in dict order
    pre,                \* history: the subject as passed to the call
    op,                 \* history: the transform that was called
    active,             \* history: whether the probability gate let the call through
    draw,               \* history: the random draws of the call
    visited             \* history: the sub-transforms a composed pass went through

lossVars == <<lpc, input, target, target0, deep_supr_weights, idx, loss, calls>>
augVars  == <<apc, subject, pre, op, active, draw, visited>>

vars == <<lossVars, augVars>>

(***************************************************************************)
(* Bounds                                                                  *)
(***************************************************************************)
MaxLevels == 5                  \* largest number L of supervision levels
Preds     == {0, 1, 2}          \* abstract per-level prediction tensors
Targets   == {0, 1}             \* abstract target tensors

(***************************************************************************)
(* Exact rationals                                                         *)
(***************************************************************************)
RECURSIVE GCD(_, _)
GCD(a, b) == IF b = 0 THEN a ELSE GCD(b, a % b)

Abs(a) == IF a < 0 THEN -a ELSE a

Rat(n, d) ==
    LET g == GCD(Abs(n), d)
    IN  <<n \div g, d \div g>>

RatAdd(p, q)  == Rat(p[1] * q[2] + q[1] * p[2], p[2] * q[2])
RatMul(p, q)  == Rat(p[1] * q[1], p[2] * q[2])
RatDiv(p, q)  == Rat(p[1] * q[2], p[2] * q[1])      \* q > 0
RatLess(p, q) == p[1] * q[2] < q[1] * p[2]

RECURSIVE RatSum(_)
RatSum(s) == IF s = <<>> THEN Rat(0, 1) ELSE RatAdd(Head(s), RatSum(Tail(s)))

RECURSIVE Pow2(_)
Pow2(k) == IF k = 0 THEN 1 ELSE 2 * Pow2(k - 1)

(***************************************************************************)
(* get_weights                                                             *)
(***************************************************************************)
\* w /= 2
Halve(w) == RatDiv(w, Rat(2, 1))

\* for i in range(n): unnormalised_weights.append(w); w /= 2
RECURSIVE WeightLoop(_, _, _, _)
WeightLoop(i, n, w, unnormalised_weights) ==
    IF i = n THEN unnormalised_weights
    ELSE WeightLoop(i + 1, n, Halve(w), Append(unnormalised_weights, w))

\* faulty variant: the weights are returned without the division by their sum
get_weights_unnormalised(n) == WeightLoop(0, n, Rat(1, 1), <<>>)

get_weights(n) ==
    LET unnormalised_weights == WeightLoop(0, n, Rat(1, 1), <<>>)
        total == RatSum(unnormalised_weights)
    IN  [i \in 1..n |-> RatDiv(unnormalised_weights[i], total)]

(***************************************************************************)
(* DeepSuprDiceCELoss                                                      *)
(***************************************************************************)
\* self.LossFunction(input_level, target): the external Dice + cross-entropy
\* loss, a fixed non-negative function of the prediction and the target.
LossFunction(input_level, t) ==
    IF input_level = t THEN Rat(0, 1) ELSE Rat(1 + 2 * input_level + t, 1)

\* faulty variant: "loss = w * l" instead of "loss += w * l"
Overwrite(acc, w, l) == RatMul(w, l)

\* loss += w * self.LossFunction(input_level, target)
Accumulate(acc, w, l) == RatAdd(acc, RatMul(w, l))

LossInit ==
    /\ lpc = "start"
    /\ \E L \in 1..MaxLevels : input \in [1..L -> Preds]
    /\ target \in Targets
    /\ target0 = target
    /\ deep_supr_weights = <<>>
    /\ idx = 0
    /\ loss = Rat(0, 1)
    /\ calls = <<>>
    /\ apc = "ready" /\ subject = <<>> /\ pre = <<>> /\ op = "none"
    /\ active = FALSE /\ draw = <<>> /\ visited = <<>>

\* lines 63-67: deep_supr_num, deep_supr_weights, input_tuple, loss = 0.0
CallEnter ==
    /\ lpc = "start"
    /\ deep_supr_weights' = get_weights(Len(input))
    /\ loss' = Rat(0, 1)
    /\ idx' = 0
    /\ lpc' = "loop"
    /\ UNCHANGED <<input, target, target0, calls>>
    /\ UNCHANGED augVars

\* lines 68-69: one iteration of zip(deep_supr_weights, input_tuple)
LoopStep ==
    /\ lpc = "loop"
    /\ idx < Len(deep_supr_weights) /\ idx < Len(input)
    /\ LET w == deep_supr_weights[idx + 1]
           input_level == input[idx + 1]
       IN  /\ calls' = Append(calls, [level |-> idx + 1, pred |-> input_level, target |-> target])
           /\ loss' = Accumulate(loss, w, LossFunction(input_level, target))
    /\ idx' = idx + 1
    /\ UNCHANGED <<lpc, input, target, target0, deep_supr_weights>>
    /\ UNCHANGED augVars

\* line 71: return loss (zip is exhausted)
CallReturn ==
    /\ lpc = "loop"
    /\ ~(idx < Len(deep_supr_weights) /\ idx < Len(input))
    /\ lpc' = "done"
    /\ UNCHANGED <<input, target, target0, deep_supr_weights, idx, loss, calls>>
    /\ UNCHANGED augVars

LossNext == CallEnter \/ LoopStep \/ CallReturn

SpecLoss == LossInit /\ [][LossNext]_vars

(***************************************************************************)
(* C1: for every level count n >= 1, get_weights(n) is a list of exactly n *)
(* weights w_i = (1/2)^i / sum_j (1/2)^j; they sum to 1, strictly          *)
(* decrease, w[i] = 2 * w[i+1], and for n = 1 the list is [1].             *)
(***************************************************************************)
C1_Weights ==
    lpc # "start" =>
        LET n == Len(input)
            w == deep_supr_weights
        IN  /\ Len(w) = n
            /\ \A i \in 1..n : w[i] = Rat(Pow2(n - i), Pow2(n) - 1)
            /\ RatSum(w) = Rat(1, 1)
            /\ \A i \in 1..(n - 1) : RatLess(w[i + 1], w[i])
            /\ \A i \in 1..(n - 1) : w[i] = RatMul(Rat(2, 1), w[i + 1])
            /\ (n = 1 => w = <<Rat(1, 1)>>)

C1_Witness == lpc = "done" /\ Len(input) = MaxLevels /\ Len(deep_supr_weights) = MaxLevels

(***************************************************************************)
(* C2: __call__ on L levels evaluates the base loss exactly once per       *)
(* level, in level order, each time against the caller's unmodified        *)
(* target, and returns sum_i w_i * loss_i with w = get_weights(L), level 0 *)
(* carrying the largest weight; L = 1 gives the base loss itself and L = 3 *)
(* with level losses a, b, c gives (4a + 2b + c) / 7.                      *)
(***************************************************************************)
LevelLoss(i) == LossFunction(input[i], target0)

C2_Aggregate ==
    /\ target = target0
    /\ lpc = "done" =>
        LET L == Len(input)
        IN  /\ Len(calls) = L
            /\ \A i \in 1..L :
                   calls[i] = [level |-> i, pred |-> input[i], target |-> target0]
            /\ loss = RatSum([i \in 1..L |-> RatMul(get_weights(L)[i], LevelLoss(i))])
            /\ \A i \in 2..L : RatLess(get_weights(L)[i], get_weights(L)[1])
            /\ (L = 1 => loss = LevelLoss(1))
            /\ (L = 3 => loss = RatDiv(RatAdd(RatAdd(RatMul(Rat(4, 1), LevelLoss(1)),
                                                     RatMul(Rat(2, 1), LevelLoss(2))),
                                              LevelLoss(3)),
                                       Rat(7, 1)))

C2_Witness ==
    /\ lpc = "done" /\ Len(input) = 3 /\ Len(calls) = 3
    /\ LevelLoss(1) # LevelLoss(2) /\ LevelLoss(2) # LevelLoss(3)
    /\ LevelLoss(1) # Rat(0, 1) /\ LevelLoss(3) # Rat(0, 1)

(***************************************************************************)
(* Subjects (torchio.Subject: a dict of entries, in insertion order)       *)
(***************************************************************************)
MaxEntries == 2                 \* largest number of entries of a subject

Shapes   == {<<2, 2, 2>>, <<3, 2, 1>>}      \* spatial shapes (H, W, D)
Spacings == {2, 4}                          \* voxel spacing in half millimetres

\* intensity ramps base + step * (linear voxel index), in whole intensities
ScalarRamps == {[base |-> 0, step |-> 1], [base |-> 100, step |-> 1],
                [base |-> 5, step |-> 0]}
LabelRamps  == {[base |-> 0, step |-> 1]}
ScalarDtypes == {"float32", "int16"}
LabelDtypes  == {"uint8"}

Coords(shape) == (1..shape[1]) \X (1..shape[2]) \X (1..shape[3])

Lin(c, shape) == (c[1] - 1) + shape[1] * (c[2] - 1) + shape[1] * shape[2] * (c[3] - 1)

\* the whole number n as an intensity
Fix(n) == 20 * n

MkImage(kind, dtype, shape, spacing, g) ==
    [kind |-> kind, dtype |-> dtype, shape |-> shape, spacing |-> spacing,
     data |-> [c \in Coords(shape) |-> Fix(g.base + g.step * Lin(c, shape))],
     nan |-> {}]

\* an entry that is no image (a name, an age, ...)
Other ==
    [kind |-> "Other", dtype |-> "none", shape |-> <<0, 0, 0>>, spacing |-> 0,
     data |-> [c \in {} |-> 0], nan |-> {}]

Entries(shape, spacing) ==
    {MkImage("ScalarImage", d, shape, spacing, g) : d \in ScalarDtypes, g \in ScalarRamps}
    \cup {MkImage("LabelMap", d, shape, spacing, g) : d \in LabelDtypes, g \in LabelRamps}
    \cup {Other}

\* isinstance(value, tio.ScalarImage)
IsScalar(e) == e.kind = "ScalarImage"
\* isinstance(value, tio.ScalarImage) or isinstance(value, tio.LabelMap)
IsImage(e) == e.kind \in {"ScalarImage", "LabelMap"}

Keys(s) == 1..Len(s)

SetMin(S) == CHOOSE m \in S : \A v \in S : m <= v
SetMax(S) == CHOOSE m \in S : \A v \in S : v <= m
Values(e) == {e.data[c] : c \in DOMAIN e.data}
\* value.data.min(), value.data.max()
DataMin(e) == SetMin(Values(e))
DataMax(e) == SetMax(Values(e))

\* the random draws a call can make; a call fills in the ones it makes
NoDraw == [x |-> <<1, 1>>, axes |-> {}, spacing |-> 0, gamma |-> 0,
           invert |-> <<>>, blend |-> 0]

AugInit ==
    /\ apc = "ready"
    /\ \E shape \in Shapes, spacing \in Spacings, n \in 0..MaxEntries :
           subject \in [1..n -> Entries(shape, spacing)]
    /\ pre = <<>>
    /\ op = "none"
    /\ active = FALSE
    /\ draw = NoDraw
    /\ visited = <<>>
    /\ lpc = "start" /\ input = <<0>> /\ target = 0 /\ target0 = 0
    /\ deep_supr_weights = <<>> /\ idx = 0 /\ loss = Rat(0, 1) /\ calls = <<>>

\* Transform.__call__ of transform name: with probability p the subject goes
\* through apply_transform (result), otherwise it is returned as it is.
Call(name, act, d, result) ==
    /\ apc = "ready"
    /\ op' = name
    /\ active' = act
    /\ draw' = IF act THEN d ELSE NoDraw
    /\ pre' = subject
    /\ subject' = IF act THEN result ELSE subject
    /\ apc' = "done"
    /\ UNCHANGED <<visited, lossVars>>

(***************************************************************************)
(* Brightness, Contrast, Gamma                                             *)
(***************************************************************************)
\* tensor * x for the factor x = <<num, den>>
Scale(v, x) == (v * x[1]) \div x[2]

\* torch.clamp(v, lo, hi)
Clamp(v, lo, hi) == IF v < lo THEN lo ELSE IF v > hi THEN hi ELSE v

BrightnessFactors == {<<7, 10>>, <<1, 1>>, <<13, 10>>}     \* random.uniform(0.7, 1.3)
ContrastFactors   == {<<13, 20>>, <<1, 1>>, <<3, 2>>}      \* random.uniform(0.65, 1.5)
Gammas            == {2, 3}         \* random.uniform(0.7, 1.5): gamma = 1, 3/2, in halves

\* Brightness.apply_transform
BrightnessApply(s, x) ==
    [k \in Keys(s) |->
        IF IsScalar(s[k])
        THEN [s[k] EXCEPT !.data = [c \in DOMAIN @ |-> Scale(@[c], x)],
                          !.dtype = "float32"]
        ELSE s[k]]

\* get_min_max of Contrast and of Gamma: the loop overwrites min and max at
\* every scalar image, so the range of the last one is returned
RECURSIVE MinMaxLoop(_, _, _)
MinMaxLoop(s, k, mm) ==
    IF k > Len(s) THEN mm
    ELSE MinMaxLoop(s, k + 1,
                    IF IsScalar(s[k])
                    THEN [min |-> DataMin(s[k]), max |-> DataMax(s[k])]
                    ELSE mm)

get_min_max(s) == MinMaxLoop(s, 1, [min |-> 0, max |-> 0])

\* Contrast.apply_transform
ContrastApply(s, x) ==
    LET mm == get_min_max(s)
    IN  [k \in Keys(s) |->
            IF IsScalar(s[k])
            THEN [s[k] EXCEPT !.data = [c \in DOMAIN @ |-> Clamp(Scale(@[c], x), mm.min, mm.max)],
                              !.dtype = "float32"]
            ELSE s[k]]

\* floor of the square root, by bisection on lo <= r < hi
RECURSIVE SqrtSearch(_, _, _)
SqrtSearch(n, lo, hi) ==
    IF hi - lo <= 1 THEN lo
    ELSE LET mid == (lo + hi) \div 2
         IN  IF mid <= n \div mid THEN SqrtSearch(n, mid, hi) ELSE SqrtSearch(n, lo, mid)

ISqrt(n) == SqrtSearch(n, 0, n + 1)

\* (num / den) ** gamma * den, for num >= 0 and den > 0
PowScaled(num, den, gamma) ==
    IF gamma = 2 THEN num ELSE (num * ISqrt(num * den)) \div den

\* One voxel of Gamma: normalise with (min, max), raise to gamma (inverted
\* or not), rescale.  The result is the rescaled value, or "nan": 0/0 and
\* x/0 * 0 when max = min, and the power of a negative base.
GammaVoxelNaN(v, mm, gamma, inv) ==
    LET den == mm.max - mm.min
        num == IF inv THEN mm.max - v ELSE v - mm.min
    IN  den = 0 \/ (num < 0 /\ gamma # 2)

GammaVoxel(v, mm, gamma, inv) ==
    LET den == mm.max - mm.min
        num == IF inv THEN mm.max - v ELSE v - mm.min
        pw  == IF num < 0 THEN num ELSE PowScaled(num, den, gamma)
    IN  IF inv THEN (den - pw) + mm.min ELSE pw + mm.min

\* Gamma.apply_transform; invert[k] is the draw random.random() < 0.15 made
\* for entry k
GammaApply(s, gamma, invert) ==
    LET mm == get_min_max(s)
    IN  [k \in Keys(s) |->
            IF IsScalar(s[k])
            THEN LET bad == {c \in DOMAIN s[k].data :
                                GammaVoxelNaN(s[k].data[c], mm, gamma, invert[k])}
                 IN  [s[k] EXCEPT
                         !.data = [c \in DOMAIN @ |->
                                      IF c \in bad THEN 0
                                      ELSE GammaVoxel(@[c], mm, gamma, invert[k])],
                         !.nan = bad,
                         !.dtype = "float32"]
            ELSE s[k]]

BrightnessCall ==
    \E act \in BOOLEAN, x \in BrightnessFactors :
        Call("Brightness", act, [NoDraw EXCEPT !.x = x], BrightnessApply(subject, x))

ContrastCall ==
    \E act \in BOOLEAN, x \in ContrastFactors :
        Call("Contrast", act, [NoDraw EXCEPT !.x = x], ContrastApply(subject, x))

GammaCall ==
    \E act \in BOOLEAN, gamma \in Gammas :
        \E invert \in [Keys(subject) -> BOOLEAN] :
            /\ \A k \in Keys(subject) : invert[k] => IsScalar(subject[k])
            /\ Call("Gamma", act, [NoDraw EXCEPT !.gamma = gamma, !.invert = invert],
                    GammaApply(subject, gamma, invert))


(***************************************************************************)
(* Rotation, Scaling                                                       *)
(*                                                                         *)
(* tio.transforms.RandomAffine resamples every image on its own grid and   *)
(* returns float32 data.  Its interpolation is outside the repository; the *)
(* resampled intensity of a voxel is modelled as a mix of the voxel and of *)
(* its mirror image along the first axis, blend / 2 of it taken from the   *)
(* mirror voxel (label maps are resampled without mixing values).          *)
(***************************************************************************)
Blends       == {0, 1, 2}                           \* the sampled rotation
ScaleFactors == {<<7, 10>>, <<1, 1>>, <<7, 5>>}     \* random.uniform(0.7, 1.4)

\* the resampling a sampled scale stands for
ScaleBlend(scale) ==
    IF scale = <<1, 1>> THEN 0 ELSE IF scale[1] < scale[2] THEN 1 ELSE 2

MirrorFirst(c, shape) == <<shape[1] + 1 - c[1], c[2], c[3]>>

RandomAffine(s, blend) ==
    [k \in Keys(s) |->
        IF IsImage(s[k])
        THEN LET e == s[k]
                 b == IF IsScalar(e) THEN blend ELSE 2 * (blend \div 2)
             IN  [e EXCEPT
                     !.data = [c \in DOMAIN @ |->
                                  ((2 - b) * @[c] + b * @[MirrorFirst(c, e.shape)]) \div 2],
                     !.dtype = "float32"]
        ELSE s[k]]

\* tensor.to(dtype): a conversion to an integer type truncates towards zero
Cast(v, dtype) ==
    IF dtype = "float32" THEN v
    ELSE IF v >= 0 THEN 20 * (v \div 20) ELSE -(20 * ((-v) \div 20))

\* lines 17-21 and 47-51: data_types[key] = value.data.dtype
RecordDtypes(s) == [k \in {j \in Keys(s) : IsImage(s[j])} |-> s[k].dtype]

\* faulty variant: only the scalar images get their dtype back
RestoreScalarDtypes(s, data_types) ==
    [k \in Keys(s) |->
        IF IsScalar(s[k])
        THEN [s[k] EXCEPT !.data = [c \in DOMAIN @ |-> Cast(@[c], data_types[k])],
                          !.dtype = data_types[k]]
        ELSE s[k]]

\* lines 27-29 and 57-59: value.set_data(value.data.to(data_types[key]))
RestoreDtypes(s, data_types) ==
    [k \in Keys(s) |->
        IF IsImage(s[k])
        THEN [s[k] EXCEPT !.data = [c \in DOMAIN @ |-> Cast(@[c], data_types[k])],
                          !.dtype = data_types[k]]
        ELSE s[k]]

\* Rotation.apply_transform
RotationApply(s, blend) ==
    LET data_types == RecordDtypes(s)
    IN  RestoreDtypes(RandomAffine(s, blend), data_types)

\* Scaling.apply_transform
ScalingApply(s, scale) ==
    LET data_types == RecordDtypes(s)
    IN  RestoreDtypes(RandomAffine(s, ScaleBlend(scale)), data_types)

RotationCall ==
    \E act \in BOOLEAN, blend \in Blends :
        Call("Rotation", act, [NoDraw EXCEPT !.blend = blend], RotationApply(subject, blend))

ScalingCall ==
    \E act \in BOOLEAN, scale \in ScaleFactors :
        Call("Scaling", act, [NoDraw EXCEPT !.x = scale], ScalingApply(subject, scale))

(***************************************************************************)
(* Mirroring                                                               *)
(***************************************************************************)
Axes == {0, 1, 2}

\* faulty variant: the flip leaves the label maps as they are
FlipScalars(s, axis) ==
    [k \in Keys(s) |->
        IF IsScalar(s[k])
        THEN LET e == s[k]
                 src(c) == [c EXCEPT ![axis + 1] = e.shape[axis + 1] + 1 - @]
             IN  [e EXCEPT !.data = [c \in DOMAIN @ |-> @[src(c)]],
                           !.nan = {c \in DOMAIN e.data : src(c) \in @}]
        ELSE s[k]]

\* tio.transforms.RandomFlip(axes=axis, flip_probability=1) on a subject
Flip(s, axis) ==
    [k \in Keys(s) |->
        IF IsImage(s[k])
        THEN LET e == s[k]
                 src(c) == [c EXCEPT ![axis + 1] = e.shape[axis + 1] + 1 - @]
             IN  [e EXCEPT !.data = [c \in DOMAIN @ |-> @[src(c)]],
                           !.nan = {c \in DOMAIN e.data : src(c) \in @}]
        ELSE s[k]]

\* tio.transforms.Compose(T_list) with T_list the flips of the sampled axes,
\* in the order of range(3)
RECURSIVE ComposeFlips(_, _, _)
ComposeFlips(s, i, axes) ==
    IF i = 3 THEN s
    ELSE ComposeFlips(IF i \in axes THEN Flip(s, i) ELSE s, i + 1, axes)

\* Mirroring.apply_transform; axes = {i in range(3) : random.random() < 0.5}
MirroringApply(s, axes) == ComposeFlips(s, 0, axes)

MirroringCall ==
    \E act \in BOOLEAN, axes \in SUBSET Axes :
        Call("Mirroring", act, [NoDraw EXCEPT !.axes = axes], MirroringApply(subject, axes))

(***************************************************************************)
(* SimulateLowResolution                                                   *)
(***************************************************************************)
LowResSpacings == {2, 3, 4}     \* random.uniform(1, 2), in half millimetres

ImagesOf(s) == {k \in Keys(s) : IsImage(s[k])}

\* subject.spatial_shape: the shape of the first image
SpatialShape(s) == s[SetMin(ImagesOf(s))].shape

CeilDiv(a, b) == (a + b - 1) \div b

\* the grid of tio.transforms.Resample(target): ceil(size * spacing / target)
\* along every axis, an axis of size 1 staying of size 1
ResampledShape(shape, spacing, tgt) ==
    [i \in 1..3 |-> IF shape[i] = 1 THEN 1 ELSE CeilDiv(shape[i] * spacing, tgt)]

\* resampling of one image onto the grid of spacing tgt; a voxel of the new
\* grid takes the value of the voxel of the old grid it falls in
ResampleImage(e, tgt) ==
    LET new == ResampledShape(e.shape, e.spacing, tgt)
        src(c) == [i \in 1..3 |-> ((c[i] - 1) * e.shape[i]) \div new[i] + 1]
    IN  [e EXCEPT !.shape = new,
                  !.spacing = tgt,
                  !.data = [c \in Coords(new) |-> e.data[src(c)]],
                  !.nan = {c \in Coords(new) : src(c) \in e.nan}]

\* faulty variant: Resample without scalars_only, the label maps are resampled too
ResampleAll(s, tgt) ==
    [k \in Keys(s) |-> IF IsImage(s[k]) THEN ResampleImage(s[k], tgt) ELSE s[k]]

\* tio.transforms.Resample(target=tgt, scalars_only=True, p=1) on a subject
Resample(s, tgt) ==
    [k \in Keys(s) |-> IF IsScalar(s[k]) THEN ResampleImage(s[k], tgt) ELSE s[k]]

\* tio.transforms.CropOrPad(shape) on the data of one image: centred crop,
\* centred padding with zeros
CropOrPad(e, shape) ==
    LET off == [i \in 1..3 |->
                   IF e.shape[i] >= shape[i] THEN (e.shape[i] - shape[i]) \div 2
                   ELSE -((shape[i] - e.shape[i]) \div 2)]
        src(c) == [i \in 1..3 |-> c[i] + off[i]]
        inside(c) == \A i \in 1..3 : 1 <= src(c)[i] /\ src(c)[i] <= e.shape[i]
    IN  [e EXCEPT !.shape = shape,
                  !.data = [c \in Coords(shape) |-> IF inside(c) THEN e.data[src(c)] ELSE 0],
                  !.nan = {c \in Coords(shape) : inside(c) /\ src(c) \in e.nan}]

\* lines 163-165: the images of get_images() (the scalar images) whose
\* shape differs from the input's are cropped or padded to it
RestoreShapes(s, input_spatial_shape) ==
    [k \in Keys(s) |->
        IF IsScalar(s[k]) /\ s[k].shape # input_spatial_shape
        THEN CropOrPad(s[k], input_spatial_shape)
        ELSE s[k]]

\* SimulateLowResolution.apply_transform, on a subject that has an image
SimulateLowResolutionApply(s, spacing) ==
    LET input_spatial_shape == SpatialShape(s)
        low_res_subject == Resample(Resample(s, spacing), 2)
    IN  RestoreShapes(low_res_subject, input_spatial_shape)

\* subject.spatial_shape reads the first image of the subject and raises
\* (IndexError) on a subject that holds no image
SimulateLowResolutionCall ==
    \E act \in BOOLEAN, spacing \in LowResSpacings :
        IF act /\ ImagesOf(subject) = {}
        THEN /\ apc = "ready"
             /\ apc' = "raised"
             /\ op' = "SimulateLowResolution"
             /\ active' = TRUE
             /\ draw' = [NoDraw EXCEPT !.spacing = spacing]
             /\ pre' = subject
             /\ UNCHANGED <<subject, visited, lossVars>>
        ELSE Call("SimulateLowResolution", act, [NoDraw EXCEPT !.spacing = spacing],
                  SimulateLowResolutionApply(subject, spacing))

(***************************************************************************)
(* ComposednnUNetTransforms                                                *)
(***************************************************************************)
\* The order in which the nine transforms are written in the list display.
Order == <<"Rotation", "Scaling", "Mirroring", "GaussianNoise", "GaussianBlur",
           "Brightness", "Contrast", "SimulateLowResolution", "Gamma">>

\* The list display of lines 223-233.  "Mirroring()" on line 226 is followed
\* by "GaussianNoise()," on line 227 with no comma between them: the display
\* is no expression list and the compiler rejects it (SyntaxError), so no
\* list of transforms is ever built.
T_list == "SyntaxError"

\* ComposednnUNetTransforms.apply_transform: visited' is the sequence of
\* sub-transforms the pass has handed the subject to
ComposedCall ==
    /\ apc = "ready"
    /\ T_list = "SyntaxError"
    /\ apc' = "raised"
    /\ op' = "ComposednnUNetTransforms"
    /\ active' = TRUE
    /\ draw' = NoDraw
    /\ pre' = subject
    /\ visited' = <<>>
    /\ UNCHANGED <<subject, lossVars>>

AugNext ==
    \/ RotationCall
    \/ ScalingCall
    \/ MirroringCall
    \/ BrightnessCall
    \/ ContrastCall
    \/ SimulateLowResolutionCall
    \/ GammaCall
    \/ ComposedCall

SpecAug == AugInit /\ [][AugNext]_vars


(***************************************************************************)
(* Claims about the transforms                                             *)
(***************************************************************************)
Returned(name) == op = name /\ apc = "done" /\ active

\* every voxel of entry k of the returned subject is a number within the
\* range entry k had when the call was made
WithinOwnRange(k) ==
    /\ subject[k].nan = {}
    /\ \A c \in DOMAIN subject[k].data :
           /\ DataMin(pre[k]) <= subject[k].data[c]
           /\ subject[k].data[c] <= DataMax(pre[k])

(***************************************************************************)
(* C3: when Contrast is activated on a subject holding several scalar      *)
(* images, the (min, max) range is taken for each scalar image on its own  *)
(* and each image is clamped into its own range: after the call every      *)
(* scalar image's values lie within that image's pre-call [min, max], also *)
(* when two images of the subject have disjoint ranges.                    *)
(***************************************************************************)
C3_ContrastOwnRange ==
    Returned("Contrast") =>
        \A k \in Keys(pre) : IsScalar(pre[k]) => WithinOwnRange(k)

(***************************************************************************)
(* C4: when Gamma is activated, every scalar image is normalised with its  *)
(* own (min, max), raised to the gamma exponent (or the inverted variant)  *)
(* and rescaled with the same range, so each scalar image's output values  *)
(* lie within that image's pre-call [min, max].  (Stated for the subjects  *)
(* whose scalar images are not constant; on a constant image max = min and *)
(* the normalisation divides by zero.)                                     *)
(***************************************************************************)
\* every scalar image spans a range (max > min), so that its normalisation
\* with its own range is defined
NonDegenerate(s) == \A k \in Keys(s) : IsScalar(s[k]) => DataMin(s[k]) < DataMax(s[k])

C4_GammaOwnRange ==
    (Returned("Gamma") /\ NonDegenerate(pre)) =>
        \A k \in Keys(pre) : IsScalar(pre[k]) => WithinOwnRange(k)

(***************************************************************************)
(* C5: one pass of ComposednnUNetTransforms hands the subject to the nine  *)
(* sub-transforms in the order Rotation, Scaling, Mirroring, GaussianNoise,*)
(* GaussianBlur, Brightness, Contrast, SimulateLowResolution, Gamma, each  *)
(* exactly once.                                                           *)
(***************************************************************************)
C5_FixedOrder ==
    (op = "ComposednnUNetTransforms" /\ apc # "ready") =>
        /\ apc = "done"
        /\ Len(visited) = Len(Order)
        /\ \A i \in 1..Len(Order) : visited[i].name = Order[i]

(***************************************************************************)
(* C6: a pass of ComposednnUNetTransforms in which no sub-transform is     *)
(* activated (all nine probabilities forced to 0) returns a subject        *)
(* identical to the input: data, dtype and shape of every entry unchanged. *)
(***************************************************************************)
C6_AllGatesClosed ==
    (/\ op = "ComposednnUNetTransforms" /\ apc # "ready"
     /\ \A i \in 1..Len(visited) : ~visited[i].active) =>
        apc = "done" /\ subject = pre

(***************************************************************************)
(* C7: for every subject and every scalar image or label map in it, the    *)
(* dtype of the entity after Rotation.apply_transform or                   *)
(* Scaling.apply_transform is its dtype before the call (the dtype         *)
(* recorded for that key before the affine step), although the affine      *)
(* step returns floating point data.                                       *)
(***************************************************************************)
C7_DtypePreserved ==
    (Returned("Rotation") \/ Returned("Scaling")) =>
        /\ Len(subject) = Len(pre)
        /\ \A k \in Keys(pre) :
               IsImage(pre[k]) =>
                   /\ subject[k].kind = pre[k].kind
                   /\ subject[k].dtype = pre[k].dtype
                   /\ subject[k].dtype = RecordDtypes(pre)[k]

C7_Witness ==
    /\ Returned("Scaling")
    /\ \E j, k \in Keys(pre) :
           /\ IsScalar(pre[j]) /\ pre[j].dtype = "int16"
           /\ pre[k].kind = "LabelMap" /\ pre[k].dtype = "uint8"
           /\ RandomAffine(pre, ScaleBlend(draw.x))[k].dtype = "float32"
           /\ subject[j].data # pre[j].data

(***************************************************************************)
(* C8: after SimulateLowResolution.apply_transform, whatever spacing was   *)
(* sampled, every image of the returned subject (scalar image or label     *)
(* map) has the spatial shape the subject had before the call, so all      *)
(* images still share one spatial shape.                                   *)
(***************************************************************************)
C8_ShapeRestored ==
    Returned("SimulateLowResolution") =>
        /\ Len(subject) = Len(pre)
        /\ \A k \in Keys(pre) :
               IsImage(pre[k]) =>
                   /\ subject[k].shape = SpatialShape(pre)
                   /\ DOMAIN subject[k].data = Coords(SpatialShape(pre))
        /\ \A j, k \in ImagesOf(subject) : subject[j].shape = subject[k].shape

C8_Witness ==
    /\ Returned("SimulateLowResolution")
    /\ \E j, k \in Keys(pre) :
           /\ IsScalar(pre[j]) /\ pre[k].kind = "LabelMap"
           /\ Resample(Resample(pre, draw.spacing), 2)[j].shape # pre[j].shape
           /\ subject[j].shape = pre[j].shape

(***************************************************************************)
(* C9: for every subject and every set S of spatial axes that Mirroring    *)
(* samples in a call, Mirroring reverses exactly the axes in S on every    *)
(* scalar image and every label map alike, leaves every shape unchanged,   *)
(* and applying the same set S a second time restores the original data.   *)
(***************************************************************************)
\* the voxel that lands on c when the axes in S are reversed
Reflect(c, S, shape) ==
    [i \in 1..3 |-> IF (i - 1) \in S THEN shape[i] + 1 - c[i] ELSE c[i]]

C9_Mirroring ==
    Returned("Mirroring") =>
        /\ Len(subject) = Len(pre)
        /\ \A k \in Keys(pre) :
               IF IsImage(pre[k])
               THEN /\ subject[k].shape = pre[k].shape
                    /\ subject[k].dtype = pre[k].dtype
                    /\ DOMAIN subject[k].data = DOMAIN pre[k].data
                    /\ \A c \in DOMAIN pre[k].data :
                           subject[k].data[c] = pre[k].data[Reflect(c, draw.axes, pre[k].shape)]
               ELSE subject[k] = pre[k]
        /\ MirroringApply(subject, draw.axes) = pre

C9_Witness ==
    /\ Returned("Mirroring")
    /\ draw.axes = {0, 2}
    /\ \E j, k \in Keys(pre) :
           /\ IsScalar(pre[j]) /\ pre[k].kind = "LabelMap"
           /\ subject[j].data # pre[j].data
           /\ subject[k].data # pre[k].data

(***************************************************************************)
(* C10: on a subject that contains no scalar image (an empty subject, or   *)
(* label maps and non-image entries only), Brightness, Contrast, Gamma and *)
(* SimulateLowResolution complete without raising and return the subject   *)
(* with all entries unchanged.                                             *)
(***************************************************************************)
Scanning == {"Brightness", "Contrast", "Gamma", "SimulateLowResolution"}

NoScalar(s) == \A k \in Keys(s) : ~IsScalar(s[k])

C10_NoScalarNoOp ==
    (apc # "ready" /\ op \in Scanning /\ active /\ NoScalar(pre)) =>
        apc = "done" /\ subject = pre

\* the same, for the subjects that hold at least one image (a label map)
C10_LabelMapsOnly ==
    (apc # "ready" /\ op \in Scanning /\ active /\ NoScalar(pre) /\ ImagesOf(pre) # {}) =>
        apc = "done" /\ subject = pre


====
